---- MODULE Spec2Model ----
(***************************************************************************)
(* State-machine model of the SubVoice relay server                        *)
(* (src/src/api/voiceRoutes.js): the HTTP administrative routes, the       *)
(* WebSocket connection handler (handshake, message dispatch, signal       *)
(* relay, close), the broadcast of the player list and the ping timer.     *)
(*                                                                         *)
(* Strings that the code concatenates, trims or slices (ids and names)     *)
(* are sequences of one-character strings; the empty sequence is the       *)
(* falsy value (null / "") of the connection's `id` variable.              *)
(*                                                                         *)
(* playerManager, createRateLimiter, forwardSignal, normalizeTeamColor,    *)
(* modeFromState and VoiceMode are imported from files that are not part   *)
(* of the source tree at hand; they are modelled from the specification    *)
(* (sections 4.1 to 4.5).                                                  *)
(*                                                                         *)
(* An inbound frame is unparseable or parses to a JSON object; a frame     *)
(* that parses to another JSON value is not among the inputs.              *)
(***************************************************************************)
EXTENDS Integers, Sequences, FiniteSets, TLC

VARIABLES
    players,       \* playerManager's registry: id -> player record (a Map)
    clientsById,   \* Map id -> connection (line 123)
    readyState,    \* per connection: "NONE" (not yet accepted), "OPEN", "CLOSED"
    id,            \* per connection: the closure variable `id` (line 149)
    isWebClient,   \* per connection: closure variable (line 150)
    pingInterval,  \* per connection: "null", "active" (timer running), "cleared"
    limiter,       \* per connection: the signalLimiter's Map key -> window record
    now,           \* the clock read by the rate limiter, in ms
    sent,          \* the messages sent by the last step, in order: [to, msg]
    log,           \* the log lines written by the last step
    broadcasts,    \* the lists broadcastPlayerUpdate was called with in the last step
    response,      \* the HTTP status of the last administrative request (0: none)
    lastMsg,       \* history: the receiver and the shape of the message the last step handled
    roomCount,     \* history: per connection, `room` messages received so far
    selfMuted      \* history: per connection, its last mute message muted it

vars == <<players, clientsById, readyState, id, isWebClient, pingInterval,
          limiter, now, sent, log, broadcasts, response, lastMsg, roomCount, selfMuted>>

(***************************************************************************)
(* Bounds of the model                                                     *)
(***************************************************************************)
MaxSignals == 1      \* Spec: signal messages one connection sends
MaxTicks == 1        \* SpecRate: times the clock advances by a full window

(***************************************************************************)
(* Program constants                                                       *)
(***************************************************************************)
limit == 50
windowMs == 10000
NameCap == 24

\* The connections of one behaviour, in the order the transport map lists them:
\* two, so that one can supersede, or outlive, the other under one id
ConnOrder == <<1, 2>>
Conns == {ConnOrder[k] : k \in 1..Len(ConnOrder)}
NULL == <<>>
ROOM_ID == "LOCAL-TEST"

\* VoiceMode (core/types.js)
VoiceMode == [GLOBAL |-> "GLOBAL", TEAM |-> "TEAM"]
Modes == {VoiceMode.GLOBAL, VoiceMode.TEAM}
CanonicalTeams == {"red", "blue"}
NoTeam == "none"
Origin == [x |-> 0, y |-> 0, z |-> 0]

(***************************************************************************)
(* Inputs                                                                  *)
(***************************************************************************)
IdA == <<"a">>
PlayerP == <<"p">>
McPrefix == <<"m", "c", ":">>
McId(p) == McPrefix \o p
ClientIds == {IdA, McId(PlayerP)}
PlayerNames == {PlayerP}
Ids == ClientIds \cup {McId(p) : p \in PlayerNames}
NameB == <<" ", "b", "o", "b", " ">>

Min(a, b) == IF a < b THEN a ELSE b
Has(r, f) == f \in DOMAIN r
Truthy(s) == s # NULL

(***************************************************************************)
(* String helpers: String.prototype.trim and slice(0, n)                   *)
(***************************************************************************)
IsSpace(ch) == ch \in {" ", "\t", "\n"}

RECURSIVE TrimLeft(_)
TrimLeft(s) == IF s # <<>> /\ IsSpace(Head(s)) THEN TrimLeft(Tail(s)) ELSE s

RECURSIVE TrimRight(_)
TrimRight(s) ==
    IF s # <<>> /\ IsSpace(s[Len(s)]) THEN TrimRight(SubSeq(s, 1, Len(s) - 1)) ELSE s

Trim(s) == TrimRight(TrimLeft(s))
Slice0(s, n) == SubSeq(s, 1, Min(Len(s), n))
CleanName(s) == Slice0(Trim(s), NameCap)

(***************************************************************************)
(* playerManager (core/playerManager.js), from specification 4.1 and 4.2   *)
(***************************************************************************)
PlayerFields == {"name", "team", "voiceMode", "muted", "pos"}

Known(pm, i) == i \in DOMAIN pm

MapSet(m, k, v) == [x \in DOMAIN m \cup {k} |-> IF x = k THEN v ELSE m[x]]
MapDelete(m, k) == [x \in DOMAIN m \ {k} |-> m[x]]

DefaultPlayer(i) ==
    [name |-> i, team |-> NoTeam, voiceMode |-> VoiceMode.GLOBAL,
     muted |-> FALSE, pos |-> Origin]

addOrUpdate(pm, i, partial) ==
    LET base == IF Known(pm, i) THEN pm[i] ELSE DefaultPlayer(i)
    IN MapSet(pm, i, [f \in PlayerFields |->
                         IF Has(partial, f) THEN partial[f] ELSE base[f]])

setTeam(pm, i, team) ==
    IF Known(pm, i) THEN [pm EXCEPT ![i].team = team] ELSE pm

setVoiceMode(pm, i, mode) ==
    IF Known(pm, i) /\ mode \in Modes THEN [pm EXCEPT ![i].voiceMode = mode] ELSE pm

setMuted(pm, i, m) ==
    IF Known(pm, i) THEN [pm EXCEPT ![i].muted = m] ELSE pm

setPlayerPos(pm, i, p) ==
    IF Known(pm, i) THEN [pm EXCEPT ![i].pos = p] ELSE pm

remove(pm, i) == MapDelete(pm, i)

getAll(pm) == pm

canListen(pm, listener, speaker) ==
    IF ~Known(pm, speaker) THEN FALSE
    ELSE IF pm[speaker].muted THEN FALSE
    ELSE IF pm[speaker].voiceMode = VoiceMode.GLOBAL THEN TRUE
    ELSE IF pm[speaker].voiceMode = VoiceMode.TEAM
         THEN /\ Known(pm, listener)
              /\ pm[listener].team = pm[speaker].team
              /\ pm[speaker].team # NoTeam
    ELSE FALSE

\* utils/teams.js: every input maps into the canonical set or to "none"
normalizeTeamColor(c) == IF c \in CanonicalTeams THEN c ELSE NoTeam

\* utils/modes.js: the mode a voice-state bundle asks for ("" when it names none)
modeFromState(state) == IF Has(state, "mode") THEN state.mode ELSE ""

(***************************************************************************)
(* createRateLimiter (security/rateLimit.js), from specification 4.3.      *)
(* count is kept up to limit + 1: every larger count answers as it does.   *)
(***************************************************************************)
LimiterRecord(l, key, t) ==
    LET rec == IF key \in DOMAIN l THEN l[key] ELSE [windowStart |-> t, count |-> 0]
        cur == IF t > rec.windowStart + windowMs
               THEN [windowStart |-> t, count |-> 0]
               ELSE rec
    IN [cur EXCEPT !.count = Min(@ + 1, limit + 1)]

LimiterAllows(rec) == rec.count <= limit

(***************************************************************************)
(* The connection handler works on a record `st` of everything it can      *)
(* change: the shared registry and transport map, the connection's own     *)
(* closure variables, and the messages and log lines it has produced so    *)
(* far.  Each branch of the handler is an operator from st to st, applied  *)
(* in the order of the code.                                               *)
(***************************************************************************)
View(c) ==
    [ws |-> c, players |-> players, clientsById |-> clientsById,
     readyState |-> readyState, id |-> id[c], isWebClient |-> isWebClient[c], pingInterval |-> pingInterval[c],
     limiter |-> limiter[c], out |-> <<>>, log |-> <<>>, bcast |-> <<>>]

\* ws.send(JSON.stringify(msg)) on connection c
Send(st, c, msg) == [st EXCEPT !.out = Append(@, [to |-> c, msg |-> msg])]

LogLine(st, level, event, from, to) ==
    [st EXCEPT !.log = Append(@, [level |-> level, event |-> event,
                                  from |-> from, to |-> to])]

Bound(m, c) == \E i \in DOMAIN m : m[i] = c

\* lines 131-135: the loop over clientsById.values(), from the n-th connection on
RECURSIVE BroadcastFrom(_, _, _)
BroadcastFrom(st, list, n) ==
    IF n > Len(ConnOrder) THEN st
    ELSE BroadcastFrom(
             IF Bound(st.clientsById, ConnOrder[n]) /\ st.readyState[ConnOrder[n]] = "OPEN"
             THEN Send(st, ConnOrder[n], [type |-> "players", list |-> list])
             ELSE st,
             list, n + 1)

\* lines 129-136
broadcastPlayerUpdate(st) ==
    LET list == getAll(st.players)
    IN BroadcastFrom([st EXCEPT !.bcast = Append(@, list)], list, 1)

\* canRouteVoice with listener and speaker exchanged
canRouteVoiceSwapped(pm, from, to) == canListen(pm, from, to)

\* lines 141-143
canRouteVoice(pm, from, to) == canListen(pm, to, from)

\* lines 163-170: the fields registerClient writes, defaults spread last
RegisterFields(newId, defaults) ==
    LET base == [name |-> newId, team |-> NoTeam, voiceMode |-> VoiceMode.GLOBAL,
                 muted |-> FALSE, pos |-> Origin]
    IN [f \in PlayerFields |-> IF Has(defaults, f) THEN defaults[f] ELSE base[f]]

registerClient(st, c, newId, defaults) ==
    [st EXCEPT !.id = newId,
               !.clientsById = MapSet(@, newId, c),
               !.players = addOrUpdate(@, newId, RegisterFields(newId, defaults))]

applyVoiceState(st, state) ==
    LET s1 == [st EXCEPT !.players = setVoiceMode(@, st.id, modeFromState(state))]
        s2 == IF Has(state, "teamColor")
              THEN [s1 EXCEPT !.players =
                        setTeam(@, st.id, normalizeTeamColor(state.teamColor))]
              ELSE s1
    IN IF Has(state, "mute")
       THEN [s2 EXCEPT !.players = setMuted(@, st.id, state.mute)]
       ELSE s2

startPing(st) ==
    IF st.pingInterval # "null" THEN st ELSE [st EXCEPT !.pingInterval = "active"]

\* webrtc/rtcServer.js, from specification 4.5 (steps 2 to 4)
forwardSignal(st, from, to, action, payload) ==
    IF ~canRouteVoice(st.players, from, to)
    THEN LogLine(st, "warn", "no_route_denied", from, to)
    ELSE IF to \notin DOMAIN st.clientsById
    THEN LogLine(st, "warn", "no_route_target", from, to)
    ELSE Send(st, st.clientsById[to],
              [type |-> "signal", from |-> from, action |-> action,
               payload |-> payload])

TypeIs(data, t) == Has(data, "type") /\ data.type = t

\* WebHandshake without the `room` message
WebHandshakeNoRoom(st, c, data) ==
    LET s1 == registerClient([st EXCEPT !.isWebClient = TRUE], c, data.clientId, <<>>)
        s3 == broadcastPlayerUpdate(s1)
        s4 == startPing(s3)
    IN LogLine(s4, "info", "web_connected", s4.id, NULL)

\* lines 213-227
WebHandshake(st, c, data) ==
    LET s1 == registerClient([st EXCEPT !.isWebClient = TRUE], c, data.clientId, <<>>)
        s2 == Send(s1, c, [type |-> "room", id |-> s1.id, value |-> ROOM_ID])
        s3 == broadcastPlayerUpdate(s2)
        s4 == startPing(s3)
    IN LogLine(s4, "info", "web_connected", s4.id, NULL)

\* data.data || data.state || {}
HandshakeState(data) ==
    IF Has(data, "data") THEN data.data
    ELSE IF Has(data, "state") THEN data.state
    ELSE <<>>

\* lines 230-235
BPHandshake(st, c, data) ==
    LET s1 == registerClient(st, c, McId(data.player), [name |-> data.player])
        s2 == applyVoiceState(s1, HandshakeState(data))
        s3 == broadcastPlayerUpdate(s2)
    IN LogLine(s3, "info", "bp_connected", s3.id, NULL)

\* lines 240-243
StateBranch(st, data) ==
    broadcastPlayerUpdate(
        applyVoiceState(st, IF Has(data, "data") THEN data.data ELSE <<>>))

\* lines 246-249
MicBranch(st, data) ==
    broadcastPlayerUpdate(
        [st EXCEPT !.players =
            setMuted(@, st.id, ~(Has(data, "state") /\ data.state))])

\* lines 252-257
PingBranch(st, c) == Send(st, c, [type |-> "pong"])

\* lines 260-265
SetNameBranch(st, data) ==
    broadcastPlayerUpdate(
        [st EXCEPT !.players = addOrUpdate(@, st.id, [name |-> CleanName(data.name)])])

\* lines 268-280
TeamvBranch(st, c, data) ==
    LET enabled == Has(data, "enabled") /\ data.enabled
        s1 == [st EXCEPT !.players =
                  setVoiceMode(@, st.id,
                               IF enabled THEN VoiceMode.TEAM ELSE VoiceMode.GLOBAL)]
        s2 == IF s1.isWebClient
              THEN Send(s1, c, [type |-> "teamv", enabled |-> enabled])
              ELSE s1
    IN broadcastPlayerUpdate(s2)

\* lines 283-286
TeamBranch(st, data) ==
    broadcastPlayerUpdate(
        [st EXCEPT !.players = setTeam(@, st.id, normalizeTeamColor(data.color))])

\* lines 289-291
PosBranch(st, data) ==
    [st EXCEPT !.players = setPlayerPos(@, st.id, data.pos)]

\* SignalBranch answering the sender when the limiter rejects the message
SignalBranchNotify(st, data) ==
    LET rec == LimiterRecord(st.limiter, st.id, now)
        s1 == [st EXCEPT !.limiter = MapSet(@, st.id, rec)]
    IN IF ~LimiterAllows(rec)
       THEN Send(LogLine(s1, "warn", "rate_limit", s1.id, NULL),
                 s1.ws, [type |-> "error"])
       ELSE IF ~canRouteVoice(s1.players, s1.id, data.to)
       THEN LogLine(s1, "warn", "blocked", s1.id, data.to)
       ELSE forwardSignal(s1, s1.id, data.to, data.action, data.payload)

\* SignalBranch without the return after the limiter's rejection
SignalBranchNoReturn(st, data) ==
    LET rec == LimiterRecord(st.limiter, st.id, now)
        s1 == [st EXCEPT !.limiter = MapSet(@, st.id, rec)]
        s2 == IF ~LimiterAllows(rec)
              THEN LogLine(s1, "warn", "rate_limit", s1.id, NULL) ELSE s1
    IN IF ~canRouteVoice(s2.players, s2.id, data.to)
       THEN LogLine(s2, "warn", "blocked", s2.id, data.to)
       ELSE forwardSignal(s2, s2.id, data.to, data.action, data.payload)

\* lines 294-316
\* SignalBranch forwarding every signal as an offer
SignalBranchAlwaysOffer(st, data) ==
    LET rec == LimiterRecord(st.limiter, st.id, now)
        s1 == [st EXCEPT !.limiter = MapSet(@, st.id, rec)]
    IN IF ~LimiterAllows(rec)
       THEN LogLine(s1, "warn", "rate_limit", s1.id, NULL)
       ELSE IF ~canRouteVoice(s1.players, s1.id, data.to)
       THEN LogLine(s1, "warn", "blocked", s1.id, data.to)
       ELSE forwardSignal(s1, s1.id, data.to, "offer", data.payload)

\* SignalBranch asking the access control before the rate limiter
SignalBranchAccessFirst(st, data) ==
    IF ~canRouteVoice(st.players, st.id, data.to)
    THEN LogLine(st, "warn", "blocked", st.id, data.to)
    ELSE LET rec == LimiterRecord(st.limiter, st.id, now)
             s1 == [st EXCEPT !.limiter = MapSet(@, st.id, rec)]
         IN IF ~LimiterAllows(rec)
            THEN LogLine(s1, "warn", "rate_limit", s1.id, NULL)
            ELSE forwardSignal(s1, s1.id, data.to, data.action, data.payload)

SignalBranch(st, data) ==
    LET rec == LimiterRecord(st.limiter, st.id, now)
        s1 == [st EXCEPT !.limiter = MapSet(@, st.id, rec)]
    IN IF ~LimiterAllows(rec)
       THEN LogLine(s1, "warn", "rate_limit", s1.id, NULL)
       ELSE IF ~canRouteVoice(s1.players, s1.id, data.to)
       THEN LogLine(s1, "warn", "blocked", s1.id, data.to)
       ELSE forwardSignal(s1, s1.id, data.to, data.action, data.payload)

\* lines 237-316: the branches a registered connection runs, in order
Registered(st, c, data) ==
    LET s2 == IF TypeIs(data, "state") THEN StateBranch(st, data) ELSE st
        s3 == IF TypeIs(data, "mic") THEN MicBranch(s2, data) ELSE s2
        s4 == IF TypeIs(data, "ping") THEN PingBranch(s3, c) ELSE s3
        s5 == IF TypeIs(data, "set_name") /\ Has(data, "name")
              THEN SetNameBranch(s4, data) ELSE s4
        s6 == IF TypeIs(data, "teamv") THEN TeamvBranch(s5, c, data) ELSE s5
        s7 == IF TypeIs(data, "team") THEN TeamBranch(s6, data) ELSE s6
        s8 == IF TypeIs(data, "pos") THEN PosBranch(s7, data) ELSE s7
    IN IF TypeIs(data, "signal") THEN SignalBranch(s8, data) ELSE s8

\* MessageHandler without `if (!id) return`
MessageHandlerNoIdCheck(st, c, raw) ==
    IF ~raw.json THEN st
    ELSE LET data == raw.data IN
         IF ~Truthy(st.id) /\ TypeIs(data, "hello_web")
            /\ Has(data, "clientId") /\ Truthy(data.clientId)
         THEN WebHandshake(st, c, data)
         ELSE LET s1 == IF ~Truthy(st.id) /\ Has(data, "player") /\ Truthy(data.player)
                        THEN BPHandshake(st, c, data)
                        ELSE st
              IN Registered(s1, c, data)

\* MessageHandler whose web handshake does not test `!id`
MessageHandlerRehandshake(st, c, raw) ==
    IF ~raw.json THEN st
    ELSE LET data == raw.data IN
         IF TypeIs(data, "hello_web")
            /\ Has(data, "clientId") /\ Truthy(data.clientId)
         THEN WebHandshake(st, c, data)
         ELSE LET s1 == IF ~Truthy(st.id) /\ Has(data, "player") /\ Truthy(data.player)
                        THEN BPHandshake(st, c, data)
                        ELSE st
              IN IF ~Truthy(s1.id) THEN s1 ELSE Registered(s1, c, data)

\* lines 204-317: ws.on("message")
MessageHandler(st, c, raw) ==
    IF ~raw.json THEN st
    ELSE LET data == raw.data IN
         IF ~Truthy(st.id) /\ TypeIs(data, "hello_web")
            /\ Has(data, "clientId") /\ Truthy(data.clientId)
         THEN WebHandshake(st, c, data)
         ELSE LET s1 == IF ~Truthy(st.id) /\ Has(data, "player") /\ Truthy(data.player)
                        THEN BPHandshake(st, c, data)
                        ELSE st
              IN IF ~Truthy(s1.id) THEN s1 ELSE Registered(s1, c, data)

\* CloseHandler without clearInterval
CloseHandlerKeepsTimer(st) ==
    IF Truthy(st.id)
    THEN LET s2 == LogLine(st, "info", "disconnected", st.id, NULL)
             s3 == [s2 EXCEPT !.players = remove(@, s2.id),
                              !.clientsById = MapDelete(@, s2.id)]
         IN broadcastPlayerUpdate(s3)
    ELSE st

\* CloseHandler announcing the players before it removes the one that left
CloseHandlerAnnouncesFirst(st) ==
    LET s1 == IF st.pingInterval = "active"
              THEN [st EXCEPT !.pingInterval = "cleared"] ELSE st
    IN IF Truthy(s1.id)
       THEN LET s2 == LogLine(s1, "info", "disconnected", s1.id, NULL)
                s3 == broadcastPlayerUpdate(s2)
            IN [s3 EXCEPT !.players = remove(@, s2.id),
                          !.clientsById = MapDelete(@, s2.id)]
       ELSE s1

\* CloseHandler without clientsById.delete
CloseHandlerKeepsBinding(st) ==
    LET s1 == IF st.pingInterval = "active"
              THEN [st EXCEPT !.pingInterval = "cleared"] ELSE st
    IN IF Truthy(s1.id)
       THEN LET s2 == LogLine(s1, "info", "disconnected", s1.id, NULL)
                s3 == [s2 EXCEPT !.players = remove(@, s2.id)]
            IN broadcastPlayerUpdate(s3)
       ELSE s1

\* lines 322-331: ws.on("close")
CloseHandler(st) ==
    LET s1 == IF st.pingInterval = "active"
              THEN [st EXCEPT !.pingInterval = "cleared"] ELSE st
    IN IF Truthy(s1.id)
       THEN LET s2 == LogLine(s1, "info", "disconnected", s1.id, NULL)
                s3 == [s2 EXCEPT !.players = remove(@, s2.id),
                                 !.clientsById = MapDelete(@, s2.id)]
            IN broadcastPlayerUpdate(s3)
       ELSE s1

(***************************************************************************)
(* History variables                                                       *)
(***************************************************************************)
CountMsgs(out, c, t) ==
    Cardinality({k \in 1..Len(out) : out[k].to = c /\ out[k].msg.type = t})

Forwarded(out) == \E k \in 1..Len(out) : out[k].msg.type = "signal"

IsWebHandshake(c, raw) ==
    /\ raw.json /\ ~Truthy(id[c]) /\ TypeIs(raw.data, "hello_web")
    /\ Has(raw.data, "clientId") /\ Truthy(raw.data.clientId)

IsBPHandshake(c, raw) ==
    /\ raw.json /\ ~Truthy(id[c]) /\ ~IsWebHandshake(c, raw)
    /\ Has(raw.data, "player") /\ Truthy(raw.data.player)

\* No message was handled in the last step
NoMsg == [conn |-> 0, shape |-> ""]

\* The shape of a frame: a handshake's (lines 213, 230), or another
Shape(raw) ==
    IF /\ raw.json
       /\ \/ /\ TypeIs(raw.data, "hello_web")
             /\ Has(raw.data, "clientId") /\ Truthy(raw.data.clientId)
          \/ Has(raw.data, "player") /\ Truthy(raw.data.player)
    THEN "handshake"
    ELSE "other"

\* Whether the message makes connection c mute (TRUE) or unmute (FALSE) its own
\* player; prev when it does neither
SelfMute(c, raw, prev) ==
    IF ~raw.json \/ IsWebHandshake(c, raw) THEN prev
    ELSE IF ~Truthy(id[c]) /\ ~IsBPHandshake(c, raw) THEN prev
    ELSE IF TypeIs(raw.data, "mic") THEN ~(Has(raw.data, "state") /\ raw.data.state)
    ELSE IF TypeIs(raw.data, "state") /\ Has(raw.data, "data") /\ Has(raw.data.data, "mute")
         THEN raw.data.data.mute
    ELSE IF IsBPHandshake(c, raw) /\ Has(HandshakeState(raw.data), "mute")
         THEN HandshakeState(raw.data).mute
    ELSE prev

\* Writes a handler's result st for connection c back to the variables
Commit(st, c) ==
    /\ players' = st.players
    /\ clientsById' = st.clientsById
    /\ readyState' = st.readyState
    /\ id' = [id EXCEPT ![c] = st.id]
    /\ isWebClient' = [isWebClient EXCEPT ![c] = st.isWebClient]
    /\ pingInterval' = [pingInterval EXCEPT ![c] = st.pingInterval]
    /\ limiter' = [limiter EXCEPT ![c] = st.limiter]
    /\ sent' = st.out
    /\ log' = st.log
    /\ broadcasts' = st.bcast
    /\ response' = 0
    /\ roomCount' = [d \in Conns |-> Min(roomCount[d] + CountMsgs(st.out, d, "room"), 2)]

(***************************************************************************)
(* Actions                                                                 *)
(***************************************************************************)
Init ==
    /\ players = <<>>
    /\ clientsById = <<>>
    /\ readyState = [c \in Conns |-> "NONE"]
    /\ id = [c \in Conns |-> NULL]
    /\ isWebClient = [c \in Conns |-> FALSE]
    /\ pingInterval = [c \in Conns |-> "null"]
    /\ limiter = [c \in Conns |-> <<>>]
    /\ now = 0
    /\ sent = <<>>
    /\ log = <<>>
    /\ broadcasts = <<>>
    /\ response = 0
    /\ lastMsg = NoMsg
    /\ roomCount = [c \in Conns |-> 0]
    /\ selfMuted = [c \in Conns |-> FALSE]

\* lines 148-156: wss.on("connection")
Connect(c) ==
    /\ readyState[c] = "NONE"
    /\ readyState' = [readyState EXCEPT ![c] = "OPEN"]
    /\ id' = [id EXCEPT ![c] = NULL]
    /\ isWebClient' = [isWebClient EXCEPT ![c] = FALSE]
    /\ pingInterval' = [pingInterval EXCEPT ![c] = "null"]
    /\ limiter' = [limiter EXCEPT ![c] = <<>>]
    /\ sent' = <<>>
    /\ log' = <<>>
    /\ broadcasts' = <<>>
    /\ response' = 0
    /\ lastMsg' = NoMsg
    /\ UNCHANGED <<players, clientsById, now, roomCount, selfMuted>>

Frame(data) == [json |-> TRUE, data |-> data]
BadFrame == [json |-> FALSE]

OnMessage(c, raw) ==
    /\ readyState[c] = "OPEN"
    /\ Commit(MessageHandler(View(c), c, raw), c)
    /\ selfMuted' = [selfMuted EXCEPT ![c] = SelfMute(c, raw, @)]
    /\ lastMsg' = [conn |-> c, shape |-> Shape(raw)]
    /\ UNCHANGED now

OnClose(c) ==
    /\ readyState[c] = "OPEN"
    /\ Commit(CloseHandler([View(c) EXCEPT !.readyState[c] = "CLOSED"]), c)
    /\ lastMsg' = NoMsg
    /\ UNCHANGED <<now, selfMuted>>

\* lines 191-198: the interval callback
PingValues == {20, 99}

PingTimer(c, v) ==
    /\ pingInterval[c] = "active"
    /\ sent' = IF readyState[c] = "OPEN"
               THEN <<[to |-> c, msg |-> [type |-> "ping", value |-> v]]>>
               ELSE <<>>
    /\ log' = <<>>
    /\ broadcasts' = <<>>
    /\ response' = 0
    /\ lastMsg' = NoMsg
    /\ UNCHANGED <<players, clientsById, readyState, id, isWebClient, pingInterval,
                   limiter, now, roomCount, selfMuted>>

\* An administrative request leaves everything but the registry alone
Admin(pm, status) ==
    /\ players' = pm
    /\ response' = status
    /\ lastMsg' = NoMsg
    /\ sent' = <<>>
    /\ log' = <<>>
    /\ broadcasts' = <<>>
    /\ UNCHANGED <<clientsById, readyState, id, isWebClient, pingInterval, limiter,
                   now, roomCount, selfMuted>>

\* PostName storing the name before it validates the request
PostNameStoresFirst(i, body) ==
    LET name == IF Has(body, "name") THEN body.name ELSE <<>>
        pm == addOrUpdate(players, i, [name |-> CleanName(name)])
    IN IF ~Truthy(name) \/ ~Truthy(i) THEN Admin(pm, 400) ELSE Admin(pm, 200)

\* lines 21-27; body is the parsed request body (req.body || {})
PostName(i, body) ==
    IF ~(Has(body, "name") /\ Truthy(body.name)) \/ ~Truthy(i)
    THEN Admin(players, 400)
    ELSE Admin(addOrUpdate(players, i, [name |-> CleanName(body.name)]), 200)

\* lines 29-35
PostTeam(i, body) ==
    IF ~(Has(body, "team") /\ body.team # "") \/ ~Truthy(i)
    THEN Admin(players, 400)
    ELSE Admin(setTeam(players, i, normalizeTeamColor(body.team)), 200)

\* lines 37-43
PostMode(i, body) ==
    IF ~(Has(body, "mode") /\ body.mode # "") \/ ~Truthy(i)
    THEN Admin(players, 400)
    ELSE Admin(setVoiceMode(players, i, body.mode), 200)

\* The clock moves on by more than one rate-limit window
Tick ==
    /\ now < MaxTicks * (windowMs + 1)
    /\ now' = now + windowMs + 1
    /\ sent' = <<>>
    /\ log' = <<>>
    /\ broadcasts' = <<>>
    /\ response' = 0
    /\ lastMsg' = NoMsg
    /\ UNCHANGED <<players, clientsById, readyState, id, isWebClient, pingInterval,
                   limiter, roomCount, selfMuted>>

(***************************************************************************)
(* Inbound messages and request bodies                                     *)
(***************************************************************************)
HelloMsgs == {[type |-> "hello_web", clientId |-> i] : i \in ClientIds}
TeamBundle == [mode |-> "TEAM", teamColor |-> "red"]
MuteBundle == [mute |-> TRUE]
PlayerMsgs == {[player |-> p, data |-> TeamBundle] : p \in PlayerNames}
StateMsgs == {[type |-> "state", data |-> b] : b \in {TeamBundle, MuteBundle}}
MicMsgs == {[type |-> "mic", state |-> b] : b \in BOOLEAN}
PingMsgs == {[type |-> "ping"]}
SetNameMsgs == {[type |-> "set_name", name |-> NameB]}
TeamvMsgs == {[type |-> "teamv", enabled |-> b] : b \in BOOLEAN}
TeamMsgs == {[type |-> "team", color |-> t] : t \in {"red", "blue", "pink"}}
PosMsgs == {[type |-> "pos", pos |-> [x |-> 1, y |-> 2, z |-> 3]]}
SignalKinds == {<<"offer", "sdp">>, <<"candidate", "ice">>}
SignalMsgs == {[type |-> "signal", to |-> i, action |-> k[1], payload |-> k[2]] :
                  i \in Ids, k \in SignalKinds}
OtherMsgs == {[type |-> "bogus"]}

NameBodies == {[name |-> NameB], <<>>}
TeamBodies == {[team |-> "red"], <<>>}
ModeBodies == {[mode |-> "TEAM"], [mode |-> "LOUD"], <<>>}

SignalsUsed(c) == IF Truthy(id[c]) /\ id[c] \in DOMAIN limiter[c]
                  THEN limiter[c][id[c]].count ELSE 0

\* A signal message from a connection that has sent fewer than MaxSignals
Signal(c, d) == SignalsUsed(c) < MaxSignals /\ OnMessage(c, Frame(d))

(***************************************************************************)
(* Spec: the relay.  Handshakes of both shapes, the messages that change   *)
(* what the access-control policy reads (mute, voice mode, team), signals  *)
(* and closes.                                                             *)
(***************************************************************************)
Next ==
    \/ \E c \in Conns : Connect(c)
    \/ \E c \in Conns, d \in HelloMsgs : OnMessage(c, Frame(d))
    \/ \E c \in Conns, d \in PlayerMsgs : OnMessage(c, Frame(d))
    \/ \E c \in Conns, d \in StateMsgs : OnMessage(c, Frame(d))
    \/ \E c \in Conns, d \in MicMsgs : OnMessage(c, Frame(d))
    \/ \E c \in Conns, d \in TeamvMsgs : OnMessage(c, Frame(d))
    \/ \E c \in Conns, d \in TeamMsgs : OnMessage(c, Frame(d))
    \/ \E c \in Conns, d \in SignalMsgs : Signal(c, d)
    \/ \E c \in Conns : OnClose(c)

Spec == Init /\ [][Next]_vars

(***************************************************************************)
(* SpecRate: the rate limiter.  Web handshakes under one id, signals       *)
(* without a bound on their number, closes, and the clock.                 *)
(***************************************************************************)
RateHelloMsgs == {[type |-> "hello_web", clientId |-> IdA]}
RateSignalMsgs == {d \in SignalMsgs : d.action = "offer"}

NextRate ==
    \/ \E c \in Conns : Connect(c)
    \/ \E c \in Conns, d \in RateHelloMsgs : OnMessage(c, Frame(d))
    \/ \E c \in Conns, d \in RateSignalMsgs : OnMessage(c, Frame(d))
    \/ \E c \in Conns : OnClose(c)
    \/ Tick

SpecRate == Init /\ [][NextRate]_vars

(***************************************************************************)
(* SpecLife: the life of connections.  Every inbound message type but      *)
(* `signal`, unparseable input, closes, the ping timer and the             *)
(* administrative requests.                                                *)
(***************************************************************************)
LifeStateMsgs == {[type |-> "state", data |-> TeamBundle]}
LifeMicMsgs == {[type |-> "mic", state |-> FALSE]}
LifeTeamvMsgs == {[type |-> "teamv", enabled |-> TRUE]}
LifeTeamMsgs == {[type |-> "team", color |-> "blue"]}

NextLife ==
    \/ \E c \in Conns : Connect(c)
    \/ \E c \in Conns, d \in HelloMsgs : OnMessage(c, Frame(d))
    \/ \E c \in Conns, d \in PlayerMsgs : OnMessage(c, Frame(d))
    \/ \E c \in Conns, d \in LifeStateMsgs : OnMessage(c, Frame(d))
    \/ \E c \in Conns, d \in LifeMicMsgs : OnMessage(c, Frame(d))
    \/ \E c \in Conns, d \in PingMsgs : OnMessage(c, Frame(d))
    \/ \E c \in Conns, d \in SetNameMsgs : OnMessage(c, Frame(d))
    \/ \E c \in Conns, d \in LifeTeamvMsgs : OnMessage(c, Frame(d))
    \/ \E c \in Conns, d \in LifeTeamMsgs : OnMessage(c, Frame(d))
    \/ \E c \in Conns, d \in PosMsgs : OnMessage(c, Frame(d))
    \/ \E c \in Conns, d \in OtherMsgs : OnMessage(c, Frame(d))
    \/ \E c \in Conns : OnMessage(c, BadFrame)
    \/ \E c \in Conns : OnClose(c)
    \/ \E c \in Conns, v \in PingValues : PingTimer(c, v)
    \/ \E i \in Ids, b \in NameBodies : PostName(i, b)
    \/ \E i \in Ids, b \in TeamBodies : PostTeam(i, b)
    \/ \E i \in Ids, b \in ModeBodies : PostMode(i, b)

SpecLife == Init /\ [][NextLife]_vars

(***************************************************************************)
(* The names: handshakes, set_name and the name route, with names that are  *)
(* padded with whitespace or longer than the cap                            *)
(***************************************************************************)
LongId == [k \in 1..(NameCap + 1) |-> "x"]
LongName == <<" ">> \o LongId \o <<" ">>
PaddedPlayer == <<" ", "p">>

NamesHelloMsgs == {[type |-> "hello_web", clientId |-> i] : i \in {IdA, LongId}}
NamesPlayerMsgs == {[player |-> p, data |-> TeamBundle] : p \in {PlayerP, PaddedPlayer}}
NamesSetNameMsgs == {[type |-> "set_name", name |-> n] : n \in {NameB, LongName}}
NamesBodies == {[name |-> n] : n \in {NameB, LongName}}

NextNames ==
    \/ \E c \in Conns : Connect(c)
    \/ \E c \in Conns, d \in NamesHelloMsgs : OnMessage(c, Frame(d))
    \/ \E c \in Conns, d \in NamesPlayerMsgs : OnMessage(c, Frame(d))
    \/ \E c \in Conns, d \in NamesSetNameMsgs : OnMessage(c, Frame(d))
    \/ \E c \in Conns : OnClose(c)
    \/ \E i \in {IdA, McId(PlayerP)}, b \in NamesBodies : PostName(i, b)

SpecNames == Init /\ [][NextNames]_vars

(***************************************************************************)
(* SpecAdmin: the administrative routes.  Requests whose body has the       *)
(* field, has it empty, or lacks it, for ids that are and that are not in   *)
(* the registry.                                                            *)
(***************************************************************************)
AdminNameBodies == NameBodies \cup {[name |-> <<>>]}
AdminTeamBodies == TeamBodies \cup {[team |-> ""], [team |-> "pink"]}
AdminModeBodies == ModeBodies \cup {[mode |-> ""]}

NextAdmin ==
    \/ \E c \in Conns : Connect(c)
    \/ \E c \in Conns, d \in HelloMsgs : OnMessage(c, Frame(d))
    \/ \E c \in Conns, d \in PlayerMsgs : OnMessage(c, Frame(d))
    \/ \E c \in Conns : OnClose(c)
    \/ \E i \in Ids, b \in AdminNameBodies : PostName(i, b)
    \/ \E i \in Ids, b \in AdminTeamBodies : PostTeam(i, b)
    \/ \E i \in Ids, b \in AdminModeBodies : PostMode(i, b)

SpecAdmin == Init /\ [][NextAdmin]_vars

(***************************************************************************)
(* SpecShake: the handshake.  Messages of both handshake shapes and of the  *)
(* other types, a hello_web without a usable clientId and frames that do    *)
(* not parse, each to connections that have and that have not registered.   *)
(***************************************************************************)
NoIdHelloMsgs == {[type |-> "hello_web"], [type |-> "hello_web", clientId |-> NULL]}

NextShake ==
    \/ \E c \in Conns : Connect(c)
    \/ \E c \in Conns, d \in HelloMsgs : OnMessage(c, Frame(d))
    \/ \E c \in Conns, d \in PlayerMsgs : OnMessage(c, Frame(d))
    \/ \E c \in Conns, d \in NoIdHelloMsgs : OnMessage(c, Frame(d))
    \/ \E c \in Conns, d \in SignalMsgs : Signal(c, d)
    \/ \E c \in Conns, d \in PingMsgs : OnMessage(c, Frame(d))
    \/ \E c \in Conns, d \in LifeStateMsgs : OnMessage(c, Frame(d))
    \/ \E c \in Conns, d \in SetNameMsgs : OnMessage(c, Frame(d))
    \/ \E c \in Conns, d \in PosMsgs : OnMessage(c, Frame(d))
    \/ \E c \in Conns : OnMessage(c, BadFrame)
    \/ \E c \in Conns : OnClose(c)

SpecShake == Init /\ [][NextShake]_vars

(***************************************************************************)
(* Properties                                                              *)
(***************************************************************************)
Logged(lg, event) == \E k \in 1..Len(lg) : lg[k].event = event
SignalsIn(out) == {k \in 1..Len(out) : out[k].msg.type = "signal"}

\* The access-control condition of the relay, on registry pm
AccessOK(pm, s, to) ==
    /\ s \in DOMAIN pm
    /\ ~pm[s].muted
    /\ \/ pm[s].voiceMode = "GLOBAL"
       \/ /\ pm[s].voiceMode = "TEAM"
          /\ to \in DOMAIN pm
          /\ pm[to].team = pm[s].team
          /\ pm[s].team # "none"

\* C1: a signal message from a registered connection with id s addressed to `to`
\* is delivered only if, in the registry as it is when the message is processed,
\* s is known, not muted, and in GLOBAL mode or in TEAM mode with `to` a known
\* player of the same team other than "none"; and the connection that receives an
\* envelope of a TEAM-mode sender is registered as a player of the sender's team.
C1_DeliveredOnlyIfAllowed ==
    [][\A c \in Conns, d \in SignalMsgs :
          (Truthy(id[c]) /\ OnMessage(c, Frame(d)) /\ Forwarded(sent'))
          => /\ AccessOK(players, id[c], d.to)
             /\ \A k \in SignalsIn(sent') :
                   players[id[c]].voiceMode = "TEAM"
                   => /\ id[sent'[k].to] \in DOMAIN players
                      /\ players[id[sent'[k].to]].team = players[id[c]].team
                      /\ players[id[sent'[k].to]].team # "none"]_vars

\* A TEAM-mode sender's signal has just been delivered to another connection
C1_Witness ==
    \E k \in SignalsIn(sent) :
        /\ sent[k].msg.from \in DOMAIN players
        /\ players[sent[k].msg.from].voiceMode = "TEAM"
        /\ id[sent[k].to] # sent[k].msg.from

\* C2: a connection whose last mute message muted its own player (`mic` with
\* state false, `state` with mute true) has none of its signal messages
\* forwarded, whatever other connections did in between.
C2_MuteHolds ==
    [][\A c \in Conns, d \in SignalMsgs :
          (Truthy(id[c]) /\ selfMuted[c] /\ OnMessage(c, Frame(d)))
          => ~Forwarded(sent')]_vars

\* C3: a signal message makes the server send nothing at all, or exactly one
\* envelope, to the connection that the transport map binds under the
\* message's `to` and that is open; a dropped message (rate limit, access
\* denied, target not connected) sends nothing to anyone.
C3_ForwardOrSilence ==
    [][\A c \in Conns, d \in SignalMsgs :
          (lastMsg'.conn = c /\ OnMessage(c, Frame(d)))
          => \/ sent' = <<>>
             \/ /\ Len(sent') = 1
                /\ sent'[1].msg.type = "signal"
                /\ d.to \in DOMAIN clientsById
                /\ sent'[1].to = clientsById[d.to]
                /\ readyState[sent'[1].to] = "OPEN"
                /\ ~Logged(log', "rate_limit") /\ ~Logged(log', "blocked")
                /\ ~Logged(log', "no_route_target") /\ ~Logged(log', "no_route_denied")]_vars

\* A signal message has just been dropped by the rate limiter
C3_Witness == Logged(log, "rate_limit") /\ sent = <<>>

\* The attempts the limiter of connection c has counted in its current window
AttemptsInWindow(c) ==
    IF Truthy(id[c]) /\ id[c] \in DOMAIN limiter[c]
       /\ ~(now > limiter[c][id[c]].windowStart + windowMs)
    THEN limiter[c][id[c]].count
    ELSE 0

RECURSIVE SumAttempts(_, _)
SumAttempts(i, cs) ==
    IF cs = {} THEN 0
    ELSE LET c == CHOOSE x \in cs : TRUE
         IN (IF id[c] = i THEN AttemptsInWindow(c) ELSE 0) + SumAttempts(i, cs \ {c})

\* C4 as stated: per sender id.  Once `limit` attempts under one id have been
\* made in a window, by whichever connections, a further attempt under that id
\* in the window is not forwarded.
C4_PerSenderId ==
    [][\A c \in Conns, d \in SignalMsgs :
          (Truthy(id[c]) /\ OnMessage(c, Frame(d)) /\ SumAttempts(id[c], Conns) >= limit)
          => ~Forwarded(sent')]_vars

\* C4 amended: per connection.  The first `limit` signal attempts of a
\* connection in one window of its limiter pass the limiter, every later one in
\* that window is dropped with nothing sent, and after the window has elapsed
\* the next attempt passes again.
C4_PerConnection ==
    [][\A c \in Conns, d \in SignalMsgs :
          (Truthy(id[c]) /\ lastMsg'.conn = c /\ OnMessage(c, Frame(d)))
          => IF AttemptsInWindow(c) >= limit
             THEN Logged(log', "rate_limit") /\ sent' = <<>>
             ELSE ~Logged(log', "rate_limit")]_vars

\* The attempt after the limit-th of a connection has just been dropped, though
\* the sender is allowed to reach its target
C4_Witness ==
    \E c \in Conns :
        /\ Truthy(id[c]) /\ id[c] \in DOMAIN limiter[c]
        /\ limiter[c][id[c]].count = limit + 1
        /\ Logged(log, "rate_limit")
        /\ AccessOK(players, id[c], id[c])
        /\ id[c] \in DOMAIN clientsById

Entry(pm, i) == IF i \in DOMAIN pm THEN <<pm[i]>> ELSE <<>>
Binding(m, i) == IF i \in DOMAIN m THEN <<m[i]>> ELSE <<>>
Live(c) == readyState[c] = "OPEN" /\ Truthy(id[c])

\* C5: when a connection closes or sends bad input (unparseable, or of an
\* unknown type), the registry entry and the transport binding of every other
\* connection that is open and registered stay as they were.
C5_Isolation ==
    [][\A c \in Conns : \A d \in Conns \ {c} :
          (/\ Live(d)
           /\ \/ OnClose(c)
              \/ OnMessage(c, BadFrame)
              \/ \E m \in OtherMsgs : OnMessage(c, Frame(m)))
          => /\ Entry(players', id[d]) = Entry(players, id[d])
             /\ Binding(clientsById', id[d]) = Binding(clientsById, id[d])]_vars

\* C6: the ids of the player registry are the ids bound in the transport map.
C6_SameIds == DOMAIN players = DOMAIN clientsById

\* C7 as stated: the ping timer of a connection is active exactly while the
\* connection is open and registered, after a handshake of either shape.
C7_TimerIffRegistered ==
    \A c \in Conns : pingInterval[c] = "active" <=> Live(c)

\* C7 amended: the ping timer of a connection is active exactly while the
\* connection is open and registered by the web handshake; a connection
\* registered by the game handshake never has one; and a `ping` is only ever
\* emitted to an open connection whose timer is active.
C7_TimerIffWebRegistered ==
    /\ \A c \in Conns : pingInterval[c] = "active" <=> (Live(c) /\ isWebClient[c])
    /\ \A c \in Conns : ~isWebClient[c] => pingInterval[c] = "null"
    /\ \A k \in 1..Len(sent) :
          sent[k].msg.type = "ping"
          => readyState[sent[k].to] = "OPEN" /\ pingInterval[sent[k].to] = "active"

\* A ping has just been emitted to one connection while the other, once
\* registered, is closed with its timer cancelled
C7_Witness ==
    \E c \in Conns, d \in Conns :
        /\ \E k \in 1..Len(sent) : sent[k].msg.type = "ping" /\ sent[k].to = c
        /\ readyState[d] = "CLOSED" /\ pingInterval[d] = "cleared"

\* C8 as stated: a connection has received `room` exactly once if it is
\* registered, by either handshake, and never otherwise.
C8_RoomOnceIfRegistered ==
    \A c \in Conns : roomCount[c] = IF Truthy(id[c]) THEN 1 ELSE 0

\* C8 amended: a connection has received `room` exactly once, in its handshake,
\* if the web handshake registered it, and never otherwise: not before it is
\* registered, not again later, and not at all after the game handshake.
C8_RoomOnceIfWebRegistered ==
    \A c \in Conns : roomCount[c] = IF Truthy(id[c]) /\ isWebClient[c] THEN 1 ELSE 0

\* A connection registered by the web handshake has lived its whole life
C8_Witness ==
    \E c \in Conns :
        isWebClient[c] /\ Truthy(id[c]) /\ readyState[c] = "CLOSED" /\ roomCount[c] = 1

\* C9: a message or close handler that changes the registry broadcasts the
\* player list, the last broadcast carrying the registry as the handler
\* leaves it.
C9_ChangeIsBroadcast ==
    [][\A c \in Conns :
          (/\ players' # players
           /\ \/ OnClose(c)
              \/ \E m \in PosMsgs \cup SetNameMsgs \cup HelloMsgs :
                    OnMessage(c, Frame(m))
              \/ \E m \in LifeStateMsgs \cup LifeMicMsgs \cup LifeTeamvMsgs \cup LifeTeamMsgs :
                    OnMessage(c, Frame(m))
              \/ \E m \in PlayerMsgs : OnMessage(c, Frame(m)))
          => /\ broadcasts' # <<>>
             /\ broadcasts'[Len(broadcasts')] = players']_vars

\* C10: after a step that broadcast, every connection that is open and
\* registered has been sent a `players` message with a list of that step.
C10_BroadcastReachesAll ==
    broadcasts # <<>>
    => \A d \in Conns :
          Live(d)
          => \E k \in 1..Len(sent), b \in 1..Len(broadcasts) :
                /\ sent[k].to = d
                /\ sent[k].msg.type = "players"
                /\ sent[k].msg.list = broadcasts[b]

\* C11: when a registered connection closes, after the close handler the
\* registry has no entry and the map no binding for its id, and every
\* connection still bound and open has been sent a `players` message with the
\* registry as it is then, which does not list that id; when a connection
\* that never registered closes, registry and map stay as they were and
\* nothing is sent.
C11_CloseCleansUp ==
    [][\A c \in Conns :
          OnClose(c)
          => IF Truthy(id[c])
             THEN /\ id[c] \notin DOMAIN players'
                  /\ id[c] \notin DOMAIN clientsById'
                  /\ \A d \in Conns :
                        (Bound(clientsById', d) /\ readyState'[d] = "OPEN")
                        => \E k \in 1..Len(sent') :
                              /\ sent'[k].to = d
                              /\ sent'[k].msg.type = "players"
                              /\ sent'[k].msg.list = getAll(players')
                              /\ id[c] \notin DOMAIN sent'[k].msg.list
             ELSE /\ players' = players
                  /\ clientsById' = clientsById
                  /\ sent' = <<>>]_vars

\* a connection has just closed and another one was sent the final list
C11_Witness ==
    /\ Logged(log, "disconnected")
    /\ \E c \in Conns, d \in Conns :
          /\ readyState[c] = "CLOSED" /\ Truthy(id[c])
          /\ id[c] \notin DOMAIN players
          /\ Live(d) /\ Bound(clientsById, d)
          /\ \E k \in 1..Len(sent) :
                sent[k].to = d /\ sent[k].msg.type = "players"

\* C12: in every reachable state the stored name of every player is at most
\* 24 characters long and has no whitespace at either end.
C12_NamesClean ==
    \A i \in DOMAIN players :
       /\ Len(players[i].name) <= NameCap
       /\ Trim(players[i].name) = players[i].name

HasPrefix(x, pre) == Len(x) >= Len(pre) /\ SubSeq(x, 1, Len(pre)) = pre

\* C13: a connection that registered by the web handshake is never bound
\* under an id that begins with the game prefix `mc:`.
C13_WebNeverGameId ==
    \A c \in Conns :
       (isWebClient[c] /\ Truthy(id[c])) => ~HasPrefix(id[c], McPrefix)

\* C14: a mutation that names an id with no registry entry (a request of the
\* name, team or mode route for it, or a set_name, team, teamv, mic, state or
\* pos message from a connection whose player entry is absent) leaves the
\* set of players as it was.
C14_UnknownIdNoOp ==
    [][/\ \A i \in Ids :
            (/\ i \notin DOMAIN players
             /\ \/ \E b \in NameBodies : PostName(i, b)
                \/ \E b \in TeamBodies : PostTeam(i, b)
                \/ \E b \in ModeBodies : PostMode(i, b))
            => DOMAIN players' = DOMAIN players
       /\ \A c \in Conns :
            (/\ Truthy(id[c])
             /\ id[c] \notin DOMAIN players
             /\ \/ \E m \in SetNameMsgs \cup PosMsgs : OnMessage(c, Frame(m))
                \/ \E m \in LifeStateMsgs \cup LifeMicMsgs : OnMessage(c, Frame(m))
                \/ \E m \in LifeTeamvMsgs \cup LifeTeamMsgs : OnMessage(c, Frame(m)))
            => DOMAIN players' = DOMAIN players]_vars

\* the field of a request body is there and is not empty (`!name` is false)
Given(body, f, empty) == Has(body, f) /\ body[f] # empty

\* C15 as stated: a name, team or mode request whose body lacks the field is
\* answered 400 and leaves the registry as it was; one whose body has the
\* field is answered 200.
C15_MissingFieldIs400 ==
    [][/\ \A i \in Ids, b \in AdminNameBodies :
            PostName(i, b) => IF Has(b, "name") THEN response' = 200
                              ELSE response' = 400 /\ players' = players
       /\ \A i \in Ids, b \in AdminTeamBodies :
            PostTeam(i, b) => IF Has(b, "team") THEN response' = 200
                              ELSE response' = 400 /\ players' = players
       /\ \A i \in Ids, b \in AdminModeBodies :
            PostMode(i, b) => IF Has(b, "mode") THEN response' = 200
                              ELSE response' = 400 /\ players' = players]_vars

\* C15, amended: a name, team or mode request whose body lacks the field, or
\* has it empty, is answered 400 and leaves the registry as it was; one whose
\* body has a non-empty field is answered 200.
C15_EmptyFieldIs400 ==
    [][response' # 0
       => /\ \A i \in Ids, b \in AdminNameBodies :
               PostName(i, b) => IF Given(b, "name", <<>>) THEN response' = 200
                                 ELSE response' = 400 /\ players' = players
          /\ \A i \in Ids, b \in AdminTeamBodies :
               PostTeam(i, b) => IF Given(b, "team", "") THEN response' = 200
                                 ELSE response' = 400 /\ players' = players
          /\ \A i \in Ids, b \in AdminModeBodies :
               PostMode(i, b) => IF Given(b, "mode", "") THEN response' = 200
                                 ELSE response' = 400 /\ players' = players]_vars

\* a request has just been refused while the registry holds a player
C15_Witness == response = 400 /\ players # <<>>

\* C16: when a registered connection whose player is in GLOBAL voice mode and
\* not muted sends a signal while it is under its rate limit, and `to` is
\* bound to an open connection, exactly one message is sent in that step: the
\* envelope {type: "signal", from, action, payload} to that connection, with
\* `from` the sender's id and the action and payload of the message.
C16_GlobalDelivered ==
    [][\A c \in Conns, d \in SignalMsgs :
          (/\ Truthy(id[c])
           /\ Known(players, id[c])
           /\ players[id[c]].voiceMode = VoiceMode.GLOBAL
           /\ ~players[id[c]].muted
           /\ AttemptsInWindow(c) < limit
           /\ d.to \in DOMAIN clientsById
           /\ readyState[clientsById[d.to]] = "OPEN"
           /\ OnMessage(c, Frame(d)))
          => sent' = <<[to |-> clientsById[d.to],
                        msg |-> [type |-> "signal", from |-> id[c],
                                 action |-> d.action, payload |-> d.payload]]>>]_vars

\* a candidate of a GLOBAL, unmuted sender has just reached a listener that
\* is muted itself
C16_Witness ==
    \E k \in SignalsIn(sent) :
        /\ sent[k].msg.action = "candidate" /\ sent[k].msg.payload = "ice"
        /\ Known(players, sent[k].msg.from)
        /\ players[sent[k].msg.from].voiceMode = VoiceMode.GLOBAL
        /\ ~players[sent[k].msg.from].muted
        /\ id[sent[k].to] # sent[k].msg.from
        /\ Known(players, id[sent[k].to])
        /\ players[id[sent[k].to]].muted

C18_RegistersOnce ==
    [][/\ \A c \in Conns :
            /\ Truthy(id[c]) => id'[c] = id[c]
            /\ (~Truthy(id[c]) /\ Truthy(id'[c]))
                  => readyState[c] = "OPEN" /\ readyState'[c] = "OPEN"
            /\ readyState[c] = "OPEN" => readyState'[c] \in {"OPEN", "CLOSED"}
            /\ readyState[c] = "CLOSED" => readyState'[c] = "CLOSED"
       /\ \A c \in Conns :
            (/\ Truthy(id[c])
             /\ \/ \E d \in HelloMsgs : OnMessage(c, Frame(d))
                \/ \E d \in PlayerMsgs : OnMessage(c, Frame(d)))
            => /\ UNCHANGED <<players, clientsById, id, isWebClient, pingInterval>>
               /\ sent' = <<>>]_vars

\* a registered connection has just received a message of a handshake shape
\* that was not taken as a handshake (a handshake announces the players)
C18_Witness ==
    /\ lastMsg.shape = "handshake"
    /\ sent = <<>>
    /\ \E c \in Conns :
          lastMsg.conn = c /\ Live(c) /\ Bound(clientsById, c) /\ Known(players, id[c])

\* C19: every signal of a registered connection counts in the window of the
\* connection, whether it is then forwarded, denied by the access control or
\* dropped for a missing target; and a signal is denied or dropped for a
\* missing target only when the rate limiter has let it pass, and dropped
\* for a missing target only when the access control has.  So once
\* `limit` signals were counted in the window, all of them dropped, the next
\* one is refused by the rate limiter, though permitted and its target bound.
C19_DroppedSignalsCount ==
    [][\A c \in Conns, d \in SignalMsgs :
          (Truthy(id[c]) /\ lastMsg'.conn = c /\ OnMessage(c, Frame(d)))
          => /\ AttemptsInWindow(c)' = Min(AttemptsInWindow(c) + 1, limit + 1)
             /\ (Logged(log', "blocked") \/ Logged(log', "no_route_target"))
                   => AttemptsInWindow(c) < limit
             /\ Logged(log', "no_route_target")
                   => AccessOK(players, id[c], d.to) /\ d.to \notin DOMAIN clientsById
             /\ Logged(log', "blocked") => ~AccessOK(players, id[c], d.to)
             /\ AttemptsInWindow(c) >= limit
                   => /\ Logged(log', "rate_limit")
                      /\ ~Logged(log', "blocked")
                      /\ ~Logged(log', "no_route_target")
                      /\ sent' = <<>>]_vars

\* the signal that used up the last unit of the window has just been
\* dropped for a missing target, while a signal to a bound target would pass
\* the access control
C19_Witness ==
    /\ Logged(log, "no_route_target")
    /\ \E c \in Conns, i \in DOMAIN clientsById :
          /\ lastMsg.conn = c
          /\ Live(c)
          /\ AttemptsInWindow(c) = limit
          /\ readyState[clientsById[i]] = "OPEN"
          /\ AccessOK(players, id[c], i)

\* C20: in every reachable state each binding id -> connection of the map
\* points to a connection that is open and whose own id is the key; no
\* binding points to a connection that is closed or has no id.
C20_BindingsLive ==
    \A i \in DOMAIN clientsById :
       /\ readyState[clientsById[i]] = "OPEN"
       /\ Truthy(id[clientsById[i]])
       /\ id[clientsById[i]] = i

\* two open connections have registered under one id and one of them is bound
C20_Witness ==
    \E c \in Conns : \E d \in Conns \ {c} :
       /\ Live(c) /\ Live(d) /\ id[c] = id[d]
       /\ Binding(clientsById, id[c]) = <<d>>
====
